---- MODULE Spec2Model ----
(***************************************************************************)
(* Model of berty's mini pairing demo (doClient1 / doClient2 and their     *)
(* helpers shareContact, receiveContactRequest, receiveMessage) and of the *)
(* account utilities (GetDevicePushKeyForPath).                            *)
(*                                                                         *)
(* The protocol service behind ProtocolServiceClient is an external        *)
(* collaborator: it is modelled as an environment (the Svc* definitions)   *)
(* that keeps the rendezvous reference, the account group's metadata log,  *)
(* the groups' message logs, and that may fail any call.                   *)
(***************************************************************************)
EXTENDS Integers, Sequences, FiniteSets, TLC

\* ------------------------------------------------------------------------
\* Bounds of the model
\* ------------------------------------------------------------------------

\* largest rendezvous seed number the service holds initially
MaxSeed == 1

\* number of key pairs GenerateKey can draw
MaxKeys == 2

\* number of calls of GetDevicePushKeyForPath in a run
MaxCalls == 3

\* number of calls of GetDatastoreDir in a run
MaxOpens == 3

\* number of operations the tasks start on the datastores in a run
MaxOps == 2

\* ------------------------------------------------------------------------
\* Byte strings, base58 and the protobuf wire format of ShareableContact
\* ------------------------------------------------------------------------

\* number of symbols of the base58 alphabet; a symbol is its index 0..57,
\* any other number stands for a character outside the alphabet
Base58Radix == 58

\* number of values of a byte
ByteRadix == 256

\* protobuf tag bytes of ShareableContact: (field << 3) | wire type 2
TagPK == 10

TagSeed == 18

\* cryptoutil.KeySize, the length of each half of the device push key
KeySize == 32

RECURSIVE StripZeros(_)
StripZeros(ds) ==
    IF ds = <<>> THEN <<>>
    ELSE IF Head(ds) = 0 THEN StripZeros(Tail(ds)) ELSE ds

RECURSIVE LeadingZeros(_)
LeadingZeros(ds) ==
    IF ds = <<>> \/ Head(ds) # 0 THEN 0 ELSE 1 + LeadingZeros(Tail(ds))

Zeros(n) == [i \in 1..n |-> 0]

\* long division of the big-endian number ds (radix from) by to:
\* <<quotient digits, remainder>>
RECURSIVE DivStep(_, _, _, _, _)
DivStep(ds, from, to, carry, q) ==
    IF ds = <<>> THEN <<q, carry>>
    ELSE LET acc == carry * from + Head(ds)
         IN  DivStep(Tail(ds), from, to, acc % to, Append(q, acc \div to))

\* F(e), with e evaluated once, before F is applied to its value
ByValue(F(_), e) == CHOOSE out \in {F(x) : x \in {e}} : TRUE

\* the big-endian number ds of radix from, written in radix to
RECURSIVE ToRadix(_, _, _)
ToRadix(ds, from, to) ==
    IF StripZeros(ds) = <<>> THEN <<>>
    ELSE ByValue(LAMBDA r : Append(ToRadix(r[1], from, to), r[2]),
                 DivStep(StripZeros(ds), from, to, 0, <<>>))

\* base58.Encode: a leading zero byte becomes the symbol 0 ('1'), the rest is
\* the number in radix 58
Base58Encode(bytes) ==
    Zeros(LeadingZeros(bytes)) \o ToRadix(bytes, ByteRadix, Base58Radix)

\* base58.Decode: fails on the empty string and on a character outside the
\* alphabet
Base58Decode(str) ==
    IF str = <<>> \/ \E i \in 1..Len(str) : str[i] \notin 0..(Base58Radix - 1)
    THEN [ok |-> FALSE, bytes |-> <<>>]
    ELSE [ok |-> TRUE,
          bytes |-> Zeros(LeadingZeros(str)) \o ToRadix(str, Base58Radix, ByteRadix)]

\* proto.Marshal of a ShareableContact: each non-empty bytes field as
\* tag, length, value (proto3 omits an empty field)
Marshal(contact) ==
    (IF contact.PK = <<>> THEN <<>>
     ELSE <<TagPK, Len(contact.PK)>> \o contact.PK)
    \o
    (IF contact.PublicRendezvousSeed = <<>> THEN <<>>
     ELSE <<TagSeed, Len(contact.PublicRendezvousSeed)>> \o contact.PublicRendezvousSeed)

EmptyContact == [PK |-> <<>>, PublicRendezvousSeed |-> <<>>]

\* proto.Unmarshal into a ShareableContact, for single-byte tags, lengths
\* and varints. Field 1 (pk) and field 2 (public_rendezvous_seed) are stored
\* when length-delimited and are an error with another wire type; any other
\* field is skipped by its wire type (0: a varint, 1: 8 bytes, 2: a length
\* and that many bytes, 5: 4 bytes). A zero field number, a wire type the
\* skip does not know, or a value that runs past the end of the input is an
\* error.
RECURSIVE UnmarshalFrom(_, _)
UnmarshalFrom(bs, contact) ==
    LET Fail == [ok |-> FALSE, contact |-> EmptyContact]
    IN
    IF bs = <<>> THEN [ok |-> TRUE, contact |-> contact]
    ELSE LET tag   == bs[1]
             field == tag \div 8
             wire  == tag % 8
         IN  IF tag >= 128 \/ field = 0 THEN Fail
             ELSE IF wire = 2
             THEN IF Len(bs) < 2 \/ bs[2] >= 128 \/ Len(bs) < 2 + bs[2] THEN Fail
                  ELSE LET n    == bs[2]
                           val  == SubSeq(bs, 3, 2 + n)
                           rest == SubSeq(bs, 3 + n, Len(bs))
                       IN  UnmarshalFrom(rest,
                               IF tag = TagPK
                               THEN [contact EXCEPT !.PK = val]
                               ELSE IF tag = TagSeed
                               THEN [contact EXCEPT !.PublicRendezvousSeed = val]
                               ELSE contact)
             ELSE IF field \in {1, 2} THEN Fail
             ELSE IF wire = 0
             THEN IF Len(bs) < 2 \/ bs[2] >= 128 THEN Fail
                  ELSE UnmarshalFrom(SubSeq(bs, 3, Len(bs)), contact)
             ELSE IF wire = 1
             THEN IF Len(bs) < 9 THEN Fail
                  ELSE UnmarshalFrom(SubSeq(bs, 10, Len(bs)), contact)
             ELSE IF wire = 5
             THEN IF Len(bs) < 5 THEN Fail
                  ELSE UnmarshalFrom(SubSeq(bs, 6, Len(bs)), contact)
             ELSE Fail

Unmarshal(bs) == UnmarshalFrom(bs, EmptyContact)

\* ------------------------------------------------------------------------
\* State
\* ------------------------------------------------------------------------

VARIABLES
    \* environment of the pairing flows
    reliable,           \* no call fails, no stream ends, no context is cancelled
    ctxDone,            \* per role: the pairing context (Main's ctx) is cancelled
    \* protocol service
    svcSeed,            \* rendezvous seed number of client1's account, 0: none
    svcEnabled,         \* client1's contact request reference is enabled
    metaLog,            \* metadata events of client1's account group, in order
    pending,            \* contact requests sent and not yet delivered
    activated,          \* per role: the groups it activated
    msgLog,             \* messages sent, in order, each with its group
    \* doClient1 (the Sharer)
    pc1,                \* position in doClient1 and its helpers
    contactRequestRef,  \* shareContact: reply of the last reference query
    printed,            \* the encoded contact doClient1 printed, or None
    subMetadata,        \* receiveContactRequest: the metadata subscription
    recv,               \* result of the last Recv of a subscription
    request,            \* the AccountContactRequestReceived returned, or None
    groupInfo1,         \* group of the GroupInfo reply, or None
    subMessages,        \* receiveMessage: the message subscription
    message,            \* payload of the message doClient1 printed, or None
    \* doClient2 (the Requester)
    pc2,                \* position in doClient2
    encodedContact,     \* doClient2's argument
    contact,            \* the decoded ShareableContact
    groupInfo2,         \* group of the GroupInfo reply, or None
    \* history
    calls,              \* per role: every call and Recv it issued, in order
    failed,             \* per role: a call of the role returned an error
    sentAfterPrint,     \* ContactRequestSend was issued after client1 printed
    metaYield,          \* the events the metadata subscription yielded
    msgYield            \* the messages the message subscription yielded

svcVars == <<svcSeed, svcEnabled, metaLog, pending, activated, msgLog>>

c1Vars == <<pc1, contactRequestRef, printed, subMetadata, recv, request,
            groupInfo1, subMessages, message>>

c2Vars == <<pc2, encodedContact, contact, groupInfo2>>

histVars == <<sentAfterPrint, metaYield, msgYield>>

pairVars == <<reliable, ctxDone, svcVars, c1Vars, c2Vars, calls, failed, histVars>>

VARIABLES
    \* the device push key file and its callers
    keyReliable,        \* no file operation and no key generation fails
    keyFile,            \* the file at filePath: whether it exists, and its bytes
    keyDir,             \* the directory of filePath exists
    kpc,                \* per caller: position in GetDevicePushKeyForPath
    createIfMissing,    \* per caller: the flag of its call
    contents,           \* per caller: the bytes read, or built for writing
    generated,          \* per caller: the pair GenerateKey returned, if any
    before,             \* per caller: the file when its call started
    \* history
    keyCalls,           \* number of calls started
    keyCreates,         \* number of os.Create calls that succeeded
    keyWrites,          \* number of ioutil.WriteFile calls that succeeded
    keyLog              \* the calls that ended, in order, with their results

keyVars == <<keyReliable, keyFile, keyDir, kpc, createIfMissing, contents, generated,
             before, keyCalls, keyCreates, keyWrites, keyLog>>

VARIABLES
    \* the datastore directory, its database, and the datastores opened
    storeReliable,      \* no file or database operation fails
    storeDir,           \* the directory <dir>/account0 exists
    dbTable,            \* datastore.sqlite: no table, or the rows of "blocks"
    fsOps,              \* number of file and database operations made
    opc,                \* position of the opener: idle, or between the two calls
    dirArg,             \* the dir given to GetDatastoreDir
    dirResult,          \* the dir GetDatastoreDir returned
    openStart,          \* the directory and database when the opening started
    handles,            \* the datastores GetRootDatastoreForPath returned
    mem,                \* per datastore: the keys of its in-process map
    lock,               \* per datastore: holders of its guard
    tpc,                \* per task: idle or inside an operation
    top,                \* per task: the operation it is inside
    \* history
    opens,              \* number of calls of GetDatastoreDir
    ops,                \* number of operations started
    openLog             \* the openings that ended, in order, with their results

storeVars == <<storeReliable, storeDir, dbTable, fsOps, opc, dirArg, dirResult, openStart, handles,
               mem, lock, tpc, top, opens, ops, openLog>>

VARIABLES
    \* the accounts directory and its listing
    acctReliable,       \* os.Stat and ioutil.ReadDir of the root do not fail
    rootDir,            \* rootDir: whether it exists, and its entry of each name
    listResult          \* what ListAccounts returned, if it was called

acctVars == <<acctReliable, rootDir, listResult>>

vars == <<pairVars, keyVars, storeVars, acctVars>>

\* what the actions of each component leave alone
notPairVars == <<keyVars, storeVars, acctVars>>

notKeyVars == <<pairVars, storeVars, acctVars>>

notStoreVars == <<pairVars, keyVars, acctVars>>

notAcctVars == <<pairVars, keyVars, storeVars>>

\* An optional value (a nil pointer, a reply not yet received) is the empty
\* sequence when absent and the one-element sequence of the value otherwise.
None == "None"

Roles == {"client1", "client2"}

\* config.AccountPK of each role's service
AccountPK(r) == IF r = "client1" THEN <<201>> ELSE <<202>>

\* config.AccountGroupPK of each role's service
AccountGroupPK(r) == IF r = "client1" THEN <<211>> ELSE <<212>>

\* the bytes of seed number n; no seed is the empty byte string
SeedBytes(n) == IF n = 0 THEN <<>> ELSE <<n>>

\* []byte("Hello")
Hello == <<72, 101, 108, 108, 111>>

\* the contact group of two accounts: the service derives it from both keys
ContactGroup(pkA, pkB) == {pkA, pkB}

\* a subscription that its cancel leaves open
StillOpen == [open |-> TRUE, cursor |-> 0]

Closed == [open |-> FALSE, cursor |-> 0]

NoRecv == [from |-> "none", err |-> "none"]

\* ------------------------------------------------------------------------
\* Calls to the protocol service
\* ------------------------------------------------------------------------

\* the record of a call, or of a Recv on a subscription: its request,
\* whether it succeeded (a clean end of stream is no failure), and its reply
\* (the empty sequence when it failed, and for a call whose reply is empty)
Call(r, rpc, arg, ok, reply) ==
    [role |-> r, rpc |-> rpc, arg |-> arg, ok |-> ok,
     reply |-> IF ok THEN reply ELSE <<>>]

\* The results a call of role r can have: it succeeds only while the role's
\* context is live and the service accepts it (pre); it fails when the
\* service refuses it, and otherwise only in an unreliable environment.
RpcResults(r, pre) ==
    {ok \in BOOLEAN : (ok => (~ctxDone[r] /\ pre)) /\ (~ok => (~reliable \/ ~pre))}

Issue(r, rpc, arg, ok, reply) ==
    /\ calls' = [calls EXCEPT ![r] = Append(@, Call(r, rpc, arg, ok, reply))]
    /\ failed' = IF ok THEN failed ELSE [failed EXCEPT ![r] = TRUE]

Event(type, pk) == [EventType |-> type, ContactPK |-> pk]

EventTypeAccountContactRequestIncomingReceived == "AccountContactRequestIncomingReceived"

\* ------------------------------------------------------------------------
\* doClient1: shareContact
\* ------------------------------------------------------------------------

\* a shareContact that resets only a reference that is both empty and disabled
NeedsResetBoth(ref) == Len(ref.PublicRendezvousSeed) = 0 /\ ~ref.Enabled

\* the condition under which shareContact resets and enables the reference
NeedsReset(ref) == Len(ref.PublicRendezvousSeed) = 0 \/ ~ref.Enabled

\* the reply of ContactRequestReference
ReferenceReply == [PublicRendezvousSeed |-> SeedBytes(svcSeed), Enabled |-> svcEnabled]

\* first ContactRequestReference query
ShareContactQuery ==
    /\ pc1 = "shareContact"
    /\ \E ok \in RpcResults("client1", TRUE) :
         /\ Issue("client1", "ContactRequestReference", None, ok, <<ReferenceReply>>)
         /\ IF ok
            THEN /\ contactRequestRef' = ReferenceReply
                 /\ pc1' = IF NeedsReset(ReferenceReply) THEN "reset" ELSE "config"
            ELSE /\ pc1' = "panic"
                 /\ UNCHANGED contactRequestRef
    /\ UNCHANGED notPairVars
    /\ UNCHANGED <<reliable, ctxDone, svcVars, printed, subMetadata, recv, request,
                   groupInfo1, subMessages, message, c2Vars, histVars>>

\* ContactRequestResetReference: the service draws a new seed
ShareContactReset ==
    /\ pc1 = "reset"
    /\ \E ok \in RpcResults("client1", TRUE) :
         /\ Issue("client1", "ContactRequestResetReference", None, ok, <<>>)
         /\ IF ok
            THEN /\ svcSeed' = svcSeed + 1
                 /\ metaLog' = Append(metaLog,
                        Event("AccountContactRequestReferenceReset", <<>>))
                 /\ pc1' = "enable"
            ELSE /\ pc1' = "panic"
                 /\ UNCHANGED <<svcSeed, metaLog>>
    /\ UNCHANGED notPairVars
    /\ UNCHANGED <<reliable, ctxDone, svcEnabled, pending, activated, msgLog,
                   contactRequestRef, printed, subMetadata, recv, request,
                   groupInfo1, subMessages, message, c2Vars, histVars>>

\* ContactRequestEnable
ShareContactEnable ==
    /\ pc1 = "enable"
    /\ \E ok \in RpcResults("client1", TRUE) :
         /\ Issue("client1", "ContactRequestEnable", None, ok, <<>>)
         /\ IF ok
            THEN /\ svcEnabled' = TRUE
                 /\ metaLog' = Append(metaLog,
                        Event("AccountContactRequestEnabled", <<>>))
                 /\ pc1' = "requery"
            ELSE /\ pc1' = "panic"
                 /\ UNCHANGED <<svcEnabled, metaLog>>
    /\ UNCHANGED notPairVars
    /\ UNCHANGED <<reliable, ctxDone, svcSeed, pending, activated, msgLog,
                   contactRequestRef, printed, subMetadata, recv, request,
                   groupInfo1, subMessages, message, c2Vars, histVars>>

\* second ContactRequestReference query ("Refresh the info")
ShareContactRequery ==
    /\ pc1 = "requery"
    /\ \E ok \in RpcResults("client1", TRUE) :
         /\ Issue("client1", "ContactRequestReference", None, ok, <<ReferenceReply>>)
         /\ IF ok
            THEN /\ contactRequestRef' = ReferenceReply
                 /\ pc1' = "config"
            ELSE /\ pc1' = "panic"
                 /\ UNCHANGED contactRequestRef
    /\ UNCHANGED notPairVars
    /\ UNCHANGED <<reliable, ctxDone, svcVars, printed, subMetadata, recv, request,
                   groupInfo1, subMessages, message, c2Vars, histVars>>

\* the ShareableContact shareContact builds from the configuration reply and
\* the last reference reply
ShareableContact(config, ref) ==
    [PK |-> config.AccountPK, PublicRendezvousSeed |-> ref.PublicRendezvousSeed]

\* the reply of ServiceGetConfiguration
Configuration(r) == [AccountPK |-> AccountPK(r), AccountGroupPK |-> AccountGroupPK(r)]

\* ServiceGetConfiguration, proto.Marshal; doClient1 prints the base58 text
\* of the bytes
ShareContactBuild ==
    /\ pc1 = "config"
    /\ \E ok \in RpcResults("client1", TRUE) :
         /\ Issue("client1", "ServiceGetConfiguration", None, ok,
                  <<Configuration("client1")>>)
         /\ IF ok
            THEN /\ \E binaryContact \in {Marshal(ShareableContact(
                                Configuration("client1"), contactRequestRef))} :
                        printed' = <<Base58Encode(binaryContact)>>
                 /\ pc1' = "receiveContactRequest"
            ELSE /\ pc1' = "panic"
                 /\ UNCHANGED printed
    /\ UNCHANGED notPairVars
    /\ UNCHANGED <<reliable, ctxDone, svcVars, contactRequestRef, subMetadata, recv,
                   request, groupInfo1, subMessages, message, c2Vars, histVars>>

\* ------------------------------------------------------------------------
\* doClient1: receiveContactRequest
\* ------------------------------------------------------------------------

\* The results a Recv of role r can have: an event when one is available
\* and the context is live; a clean end of stream or an error only in an
\* unreliable environment (the error also when the context is cancelled).
\* With no result the Recv blocks.
RecvResults(r, available) ==
    {k \in {"nil", "EOF", "error"} :
        /\ k = "nil" => (available /\ ~ctxDone[r])
        /\ k = "EOF" => (~reliable /\ ~ctxDone[r])
        /\ k = "error" => ~reliable}

\* ServiceGetConfiguration, for the AccountGroupPK
ReceiveContactRequestConfig ==
    /\ pc1 = "receiveContactRequest"
    /\ \E ok \in RpcResults("client1", TRUE) :
         /\ Issue("client1", "ServiceGetConfiguration", None, ok,
                  <<Configuration("client1")>>)
         /\ pc1' = IF ok THEN "subscribeMetadata" ELSE "panic"
    /\ UNCHANGED notPairVars
    /\ UNCHANGED <<reliable, ctxDone, svcVars, contactRequestRef, printed, subMetadata,
                   recv, request, groupInfo1, subMessages, message, c2Vars,
                   histVars>>

\* GroupMetadataList on the account group, under subCtx: the stream starts
\* at the first event of the log
ReceiveContactRequestSubscribe ==
    /\ pc1 = "subscribeMetadata"
    /\ \E ok \in RpcResults("client1", TRUE) :
         /\ Issue("client1", "GroupMetadataList",
                  Configuration("client1").AccountGroupPK, ok, <<>>)
         /\ IF ok
            THEN /\ subMetadata' = [open |-> TRUE,
                                    group |-> Configuration("client1").AccountGroupPK,
                                    cursor |-> 0]
                 /\ pc1' = "recvMetadata"
            ELSE /\ pc1' = "panic"
                 /\ UNCHANGED subMetadata
    /\ UNCHANGED notPairVars
    /\ UNCHANGED <<reliable, ctxDone, svcVars, contactRequestRef, printed, recv,
                   request, groupInfo1, subMessages, message, c2Vars, histVars>>

\* subMetadata.Recv(): blocks until the next event of the log, the end of
\* the stream or an error.
ReceiveContactRequestRecv ==
    /\ pc1 = "recvMetadata"
    /\ \E k \in RecvResults("client1", subMetadata.cursor < Len(metaLog)) :
         /\ recv' = IF k = "nil"
                    THEN [from |-> "metadata", err |-> "nil",
                          event |-> metaLog[subMetadata.cursor + 1]]
                    ELSE [from |-> "metadata", err |-> k]
         /\ subMetadata' = IF k = "nil"
                           THEN [subMetadata EXCEPT !.cursor = @ + 1]
                           ELSE subMetadata
         /\ metaYield' = IF k = "nil"
                         THEN Append(metaYield, metaLog[subMetadata.cursor + 1])
                         ELSE metaYield
         /\ Issue("client1", "Recv", "metadata", k # "error",
                  IF k = "nil" THEN <<metaLog[subMetadata.cursor + 1]>> ELSE <<>>)
    /\ pc1' = "checkMetadata"
    /\ UNCHANGED notPairVars
    /\ UNCHANGED <<reliable, ctxDone, svcVars, contactRequestRef, printed, request,
                   groupInfo1, subMessages, message, c2Vars, sentAfterPrint, msgYield>>

\* subMetadata.Context().Err() != nil: the stream's context descends from
\* subCtx, a child of the pairing context, and subCancel runs only as
\* receiveContactRequest returns
StreamContextErr == ctxDone["client1"]

\* the "Not received" test of receiveContactRequest
NotReceivedRequest == recv.err = "EOF" \/ StreamContextErr

\* a receiveContactRequest that skips no event
SkipsNoEvent(metadata) == FALSE

\* the events receiveContactRequest skips
SkipsEvent(metadata) ==
    metadata.EventType # EventTypeAccountContactRequestIncomingReceived

\* request.Unmarshal(metadata.Event)
UnmarshalRequest(metadata) == [ContactPK |-> metadata.ContactPK]

\* The rest of the loop body of receiveContactRequest and, when it returns,
\* doClient1's handling of the result. Returning runs the deferred
\* subCancel.
ReceiveContactRequestCheck ==
    /\ pc1 = "checkMetadata"
    /\ IF NotReceivedRequest
       THEN /\ pc1' = "noRequest"
            /\ subMetadata' = Closed
            /\ UNCHANGED request
       ELSE IF recv.err # "nil"
       THEN /\ pc1' = "panic"
            /\ subMetadata' = Closed
            /\ UNCHANGED request
       ELSE IF SkipsEvent(recv.event)
       THEN /\ pc1' = "recvMetadata"
            /\ UNCHANGED <<subMetadata, request>>
       ELSE /\ request' = <<UnmarshalRequest(recv.event)>>
            /\ pc1' = "accept"
            /\ subMetadata' = Closed
    /\ UNCHANGED notPairVars
    /\ UNCHANGED <<reliable, ctxDone, svcVars, contactRequestRef, printed, recv,
                   groupInfo1, subMessages, message, c2Vars, calls, failed,
                   histVars>>

\* ------------------------------------------------------------------------
\* doClient1: accept, activate, receiveMessage
\* ------------------------------------------------------------------------

\* a doClient1 that accepts under its own key
AcceptOwnPK == AccountPK("client1")

\* ContactPK of the ContactRequestAccept request
AcceptContactPK == request[1].ContactPK

\* ContactPK of doClient1's GroupInfo request
GroupInfoContactPK1 == request[1].ContactPK

\* GroupPK of doClient1's ActivateGroup request
ActivateGroupPK1 == groupInfo1[1]

\* GroupPK of the GroupMessageList request
MessageListGroupPK == groupInfo1[1]

\* the service accepts a request it delivered to the account
SvcHasIncoming(pk) ==
    \E i \in 1..Len(metaLog) :
        metaLog[i] = Event(EventTypeAccountContactRequestIncomingReceived, pk)

DoClient1Accept ==
    /\ pc1 = "accept"
    /\ \E ok \in RpcResults("client1", SvcHasIncoming(AcceptContactPK)) :
         /\ Issue("client1", "ContactRequestAccept", AcceptContactPK, ok, <<>>)
         /\ IF ok
            THEN /\ metaLog' = Append(metaLog,
                        Event("AccountContactRequestIncomingAccepted", AcceptContactPK))
                 /\ pc1' = "groupInfo"
            ELSE /\ pc1' = "panic"
                 /\ UNCHANGED metaLog
    /\ UNCHANGED notPairVars
    /\ UNCHANGED <<reliable, ctxDone, svcSeed, svcEnabled, pending, activated, msgLog,
                   contactRequestRef, printed, subMetadata, recv, request, groupInfo1,
                   subMessages, message, c2Vars, histVars>>

DoClient1GroupInfo ==
    /\ pc1 = "groupInfo"
    /\ \E ok \in RpcResults("client1", GroupInfoContactPK1 # <<>>) :
         /\ Issue("client1", "GroupInfo", GroupInfoContactPK1,
                  ok, <<ContactGroup(AccountPK("client1"), GroupInfoContactPK1)>>)
         /\ IF ok
            THEN /\ groupInfo1' = <<ContactGroup(AccountPK("client1"), GroupInfoContactPK1)>>
                 /\ pc1' = "activate"
            ELSE /\ pc1' = "panic"
                 /\ UNCHANGED groupInfo1
    /\ UNCHANGED notPairVars
    /\ UNCHANGED <<reliable, ctxDone, svcVars, contactRequestRef, printed, subMetadata,
                   recv, request, subMessages, message, c2Vars, histVars>>

DoClient1Activate ==
    /\ pc1 = "activate"
    /\ \E ok \in RpcResults("client1", TRUE) :
         /\ Issue("client1", "ActivateGroup", ActivateGroupPK1, ok, <<>>)
         /\ IF ok
            THEN /\ activated' = [activated EXCEPT !["client1"] = @ \cup {ActivateGroupPK1}]
                 /\ pc1' = "subscribeMessages"
            ELSE /\ pc1' = "panic"
                 /\ UNCHANGED activated
    /\ UNCHANGED notPairVars
    /\ UNCHANGED <<reliable, ctxDone, svcSeed, svcEnabled, metaLog, pending, msgLog,
                   contactRequestRef, printed, subMetadata, recv, request, groupInfo1,
                   subMessages, message, c2Vars, histVars>>

\* GroupMessageList under subCtx: the stream starts at the group's first
\* message; the service serves the messages of an activated group
ReceiveMessageSubscribe ==
    /\ pc1 = "subscribeMessages"
    /\ \E ok \in RpcResults("client1", MessageListGroupPK \in activated["client1"]) :
         /\ Issue("client1", "GroupMessageList", MessageListGroupPK, ok, <<>>)
         /\ IF ok
            THEN /\ subMessages' = [open |-> TRUE, group |-> MessageListGroupPK,
                                    cursor |-> 0]
                 /\ pc1' = "recvMessage"
            ELSE /\ pc1' = "panic"
                 /\ UNCHANGED subMessages
    /\ UNCHANGED notPairVars
    /\ UNCHANGED <<reliable, ctxDone, svcVars, contactRequestRef, printed, subMetadata,
                   recv, request, groupInfo1, message, c2Vars, histVars>>

\* the places of the subscribed group's messages after the cursor
Unread(sub) ==
    {i \in (sub.cursor + 1)..Len(msgLog) : msgLog[i].GroupPK = sub.group}

Min(S) == CHOOSE x \in S : \A y \in S : x <= y

\* a receiveMessage for which the end of the stream is an error like another
MessageOutcomeStrict(err) == IF err # "nil" THEN "panic" ELSE "done"

\* where doClient1 ends for each result of the Recv of receiveMessage:
\* io.EOF is "not received", another error panics, a message is printed
MessageOutcome(err) ==
    IF err = "EOF" THEN "noMessage"
    ELSE IF err # "nil" THEN "panic"
    ELSE "done"

\* subMessages.Recv() and the rest of receiveMessage, then doClient1's
\* handling of the result. Returning runs the deferred subCancel.
ReceiveMessageRecv ==
    /\ pc1 = "recvMessage"
    /\ \E k \in RecvResults("client1", Unread(subMessages) # {}) :
         /\ recv' = [from |-> "messages", err |-> k]
         /\ Issue("client1", "Recv", "messages", k # "error",
                  IF k = "nil" THEN <<msgLog[Min(Unread(subMessages))]>> ELSE <<>>)
         /\ pc1' = MessageOutcome(k)
         /\ IF k = "nil"
            THEN /\ message' = <<msgLog[Min(Unread(subMessages))].Message>>
                 /\ msgYield' = Append(msgYield, msgLog[Min(Unread(subMessages))])
            ELSE UNCHANGED <<message, msgYield>>
    /\ subMessages' = Closed
    /\ UNCHANGED notPairVars
    /\ UNCHANGED <<reliable, ctxDone, svcVars, contactRequestRef, printed, subMetadata,
                   request, groupInfo1, c2Vars, sentAfterPrint, metaYield>>

\* ------------------------------------------------------------------------
\* doClient2
\* ------------------------------------------------------------------------

\* the encoded contacts of client1, one per seed the service can hold
ContactTokens ==
    {Base58Encode(Marshal([PK |-> AccountPK("client1"),
                           PublicRendezvousSeed |-> SeedBytes(n)])) :
        n \in 0..(MaxSeed + 1)}

\* texts that are no encoded contact: a character outside the alphabet, and
\* the encoding of a field cut short
BadTokens == {<<Base58Radix>>, Base58Encode(<<TagPK, 5, 1>>)}

\* Main runs doClient2 on a non-empty GroupInvitation
GroupInvitations == ContactTokens \cup BadTokens

\* a doClient2 that tests the error of base58.Decode only
DecodeFailsText(contactBinary, unmarshalled) == ~contactBinary.ok

\* the two error tests of doClient2's decoding
DecodeFails(contactBinary, unmarshalled) == ~contactBinary.ok \/ ~unmarshalled.ok

\* base58.Decode, then proto.Unmarshal into contact; either error panics
DoClient2Decode ==
    /\ pc2 = "decode"
    /\ \E contactBinary \in {Base58Decode(encodedContact)} :
       \E unmarshalled \in {Unmarshal(contactBinary.bytes)} :
           IF DecodeFails(contactBinary, unmarshalled)
           THEN /\ pc2' = "panic"
                /\ UNCHANGED contact
           ELSE /\ contact' = <<unmarshalled.contact>>
                /\ pc2' = "send"
    /\ UNCHANGED notPairVars
    /\ UNCHANGED <<reliable, ctxDone, svcVars, c1Vars, encodedContact, groupInfo2,
                   calls, failed, histVars>>

\* Contact of the ContactRequestSend request
SendContact == contact[1]

\* a doClient2 that looks up the group by its own key
GroupInfoOwnPK2 == AccountPK("client2")

\* ContactPK of doClient2's GroupInfo request
GroupInfoContactPK2 == contact[1].PK

\* a doClient2 that activates the group of its own key alone
ActivateOwnGroupPK2 == ContactGroup(AccountPK("client2"), AccountPK("client2"))

\* GroupPK of doClient2's ActivateGroup request
ActivateGroupPK2 == groupInfo2[1]

\* a doClient2 that sends into the group of its own key alone
MessageSendOwnGroupPK == ContactGroup(AccountPK("client2"), AccountPK("client2"))

\* GroupPK of the AppMessageSend request
MessageSendGroupPK == groupInfo2[1]

\* Payload of the AppMessageSend request
MessageSendPayload == Hello

\* the service takes a request to another account that names its seed
SvcValidContact(r, c) ==
    c.PK # <<>> /\ c.PK # AccountPK(r) /\ c.PublicRendezvousSeed # <<>>

\* ContactRequestSend: the service queues the request for the rendezvous
DoClient2Send ==
    /\ pc2 = "send"
    /\ \E ok \in RpcResults("client2", SvcValidContact("client2", SendContact)) :
         /\ Issue("client2", "ContactRequestSend", SendContact, ok, <<>>)
         /\ IF ok
            THEN /\ pending' = pending \cup
                        {[from |-> AccountPK("client2"), to |-> SendContact.PK,
                          seed |-> SendContact.PublicRendezvousSeed]}
                 /\ pc2' = "groupInfo"
            ELSE /\ pc2' = "panic"
                 /\ UNCHANGED pending
    /\ sentAfterPrint' = (printed # <<>>)
    /\ UNCHANGED <<metaYield, msgYield>>
    /\ UNCHANGED notPairVars
    /\ UNCHANGED <<reliable, ctxDone, svcSeed, svcEnabled, metaLog, activated, msgLog,
                   c1Vars, encodedContact, contact, groupInfo2>>

DoClient2GroupInfo ==
    /\ pc2 = "groupInfo"
    /\ \E ok \in RpcResults("client2", GroupInfoContactPK2 # <<>>) :
         /\ Issue("client2", "GroupInfo", GroupInfoContactPK2,
                  ok, <<ContactGroup(AccountPK("client2"), GroupInfoContactPK2)>>)
         /\ IF ok
            THEN /\ groupInfo2' = <<ContactGroup(AccountPK("client2"), GroupInfoContactPK2)>>
                 /\ pc2' = "activate"
            ELSE /\ pc2' = "panic"
                 /\ UNCHANGED groupInfo2
    /\ UNCHANGED notPairVars
    /\ UNCHANGED <<reliable, ctxDone, svcVars, c1Vars, encodedContact, contact,
                   histVars>>

DoClient2Activate ==
    /\ pc2 = "activate"
    /\ \E ok \in RpcResults("client2", TRUE) :
         /\ Issue("client2", "ActivateGroup", ActivateGroupPK2, ok, <<>>)
         /\ IF ok
            THEN /\ activated' = [activated EXCEPT !["client2"] = @ \cup {ActivateGroupPK2}]
                 /\ pc2' = "messageSend"
            ELSE /\ pc2' = "panic"
                 /\ UNCHANGED activated
    /\ UNCHANGED notPairVars
    /\ UNCHANGED <<reliable, ctxDone, svcSeed, svcEnabled, metaLog, pending, msgLog,
                   c1Vars, encodedContact, contact, groupInfo2, histVars>>

\* AppMessageSend into an activated group, then "Message sent. Sleep." and
\* the return
DoClient2MessageSend ==
    /\ pc2 = "messageSend"
    /\ \E ok \in RpcResults("client2", MessageSendGroupPK \in activated["client2"]) :
         /\ Issue("client2", "AppMessageSend",
                  [GroupPK |-> MessageSendGroupPK, Payload |-> MessageSendPayload], ok, <<>>)
         /\ IF ok
            THEN /\ msgLog' = Append(msgLog, [GroupPK |-> MessageSendGroupPK,
                                              Message |-> MessageSendPayload])
                 /\ pc2' = "done"
            ELSE /\ pc2' = "panic"
                 /\ UNCHANGED msgLog
    /\ UNCHANGED notPairVars
    /\ UNCHANGED <<reliable, ctxDone, svcSeed, svcEnabled, metaLog, pending, activated,
                   c1Vars, encodedContact, contact, groupInfo2, histVars>>

\* ------------------------------------------------------------------------
\* Environment
\* ------------------------------------------------------------------------

\* The service delivers a queued contact request to the account it names
\* when that account's reference is enabled and has the seed of the request:
\* an incoming-request event enters the account group's metadata log.
ServiceDeliverRequest ==
    /\ \E req \in pending :
         /\ req.to = AccountPK("client1")
         /\ svcEnabled
         /\ req.seed = SeedBytes(svcSeed)
         /\ metaLog' = Append(metaLog,
                Event(EventTypeAccountContactRequestIncomingReceived, req.from))
         /\ pending' = pending \ {req}
    /\ UNCHANGED notPairVars
    /\ UNCHANGED <<reliable, ctxDone, svcSeed, svcEnabled, activated, msgLog, c1Vars,
                   c2Vars, calls, failed, histVars>>

Terminal == {"done", "panic", "noRequest", "noMessage"}

\* The pairing context of a running flow is cancelled.
CancelContext(r) ==
    /\ ~reliable
    /\ ~ctxDone[r]
    /\ (IF r = "client1" THEN pc1 ELSE pc2) \notin Terminal
    /\ ctxDone' = [ctxDone EXCEPT ![r] = TRUE]
    /\ UNCHANGED notPairVars
    /\ UNCHANGED <<reliable, svcVars, c1Vars, c2Vars, calls, failed, histVars>>

\* ------------------------------------------------------------------------
\* GetDevicePushKeyForPath
\* ------------------------------------------------------------------------

Callers == {"k1", "k2"}

\* the k-th pair box.GenerateKey can return; the bytes of both halves
\* differ at every index and between pairs
KeyPair(k) ==
    [pk |-> [i \in 1..KeySize |-> (16 * k + i) % ByteRadix],
     sk |-> [i \in 1..KeySize |-> (16 * k + 128 + i) % ByteRadix]]

\* file contents with the private half first
KeyContentsSwapped(pair) ==
    [j \in 1..(2 * KeySize) |-> IF j <= KeySize THEN pair.sk[j] ELSE pair.pk[j - KeySize]]

\* the file contents built from a generated pair: contents[i] = pk[i],
\* contents[i+KeySize] = sk[i]
KeyContents(pair) ==
    [j \in 1..(2 * KeySize) |-> IF j <= KeySize THEN pair.pk[j] ELSE pair.sk[j - KeySize]]

Absent == [exists |-> FALSE, contents |-> <<>>]

File(bytes) == [exists |-> TRUE, contents |-> bytes]

\* the read loop: pkVal[i] = contents[i], skVal[i] = contents[i+KeySize] for
\* i < KeySize. An index past the end of contents is a run-time panic;
\* bytes after the first 2*KeySize are not looked at.
ReadPair(bytes) ==
    IF \E i \in 1..KeySize : i > Len(bytes) \/ i + KeySize > Len(bytes)
    THEN [err |-> "panic", pair |-> <<>>]
    ELSE [err |-> "nil",
          pair |-> <<[pk |-> [i \in 1..KeySize |-> bytes[i]],
                      sk |-> [i \in 1..KeySize |-> bytes[i + KeySize]]]>>]

\* The results a file operation or key generation can have.
IoResults == IF keyReliable THEN {"nil"} ELSE {"nil", "error"}

\* GetDevicePushKeyForPath returns (or panics): the call of c ends
Return(c, err, pair, created, file) ==
    /\ keyLog' = Append(keyLog, [createIfMissing |-> createIfMissing[c],
                                 err |-> err, pair |-> pair, created |-> created,
                                 before |-> before[c], after |-> file])
    /\ kpc' = [kpc EXCEPT ![c] = "idle"]

\* ioutil.ReadFile on the file as it is now
ReadFileErr(io) ==
    IF ~keyFile.exists THEN "notExist" ELSE io

\* a call that creates the file whenever it is missing, whatever the flag
CreatesFileAlways(err, flag) == err = "notExist"

\* os.IsNotExist(err) && createIfMissing
CreatesFile(err, flag) == err = "notExist" /\ flag

\* The call starts: ioutil.ReadFile and the branch on its result. With the
\* file missing and the flag set the call goes on to create the file; with
\* any other error it returns ErrPushUnableToDecrypt; otherwise it returns
\* what the read loop makes of the contents.
GetDevicePushKeyForPath(c, flag) ==
    /\ kpc[c] = "idle"
    /\ keyCalls < MaxCalls
    /\ keyCalls' = keyCalls + 1
    /\ createIfMissing' = [createIfMissing EXCEPT ![c] = flag]
    /\ before' = [before EXCEPT ![c] = keyFile]
    /\ generated' = [generated EXCEPT ![c] = <<>>]
    /\ \E io \in IoResults :
         IF CreatesFile(ReadFileErr(io), flag)
         THEN /\ kpc' = [kpc EXCEPT ![c] = "MkdirAll"]
              /\ contents' = [contents EXCEPT ![c] = <<>>]
              /\ UNCHANGED keyLog
         ELSE IF ReadFileErr(io) # "nil"
         THEN /\ contents' = [contents EXCEPT ![c] = <<>>]
              /\ keyLog' = Append(keyLog, [createIfMissing |-> flag,
                                  err |-> "ErrPushUnableToDecrypt", pair |-> <<>>,
                                  created |-> FALSE, before |-> keyFile,
                                  after |-> keyFile])
              /\ UNCHANGED kpc
         ELSE /\ contents' = [contents EXCEPT ![c] = keyFile.contents]
              /\ keyLog' = Append(keyLog, [createIfMissing |-> flag,
                                  err |-> ReadPair(keyFile.contents).err,
                                  pair |-> ReadPair(keyFile.contents).pair,
                                  created |-> FALSE, before |-> keyFile,
                                  after |-> keyFile])
              /\ UNCHANGED kpc
    /\ UNCHANGED <<keyReliable, keyFile, keyDir, keyCreates, keyWrites>>
    /\ UNCHANGED notKeyVars

\* os.MkdirAll(path.Dir(filePath))
MkdirAll(c) ==
    /\ kpc[c] = "MkdirAll"
    /\ \E io \in IoResults :
         IF io = "nil"
         THEN /\ keyDir' = TRUE
              /\ kpc' = [kpc EXCEPT ![c] = "GenerateKey"]
              /\ UNCHANGED keyLog
         ELSE /\ Return(c, "ErrInternal", <<>>, FALSE, keyFile)
              /\ UNCHANGED keyDir
    /\ UNCHANGED <<keyReliable, keyFile, createIfMissing, contents, generated, before,
                   keyCalls, keyCreates, keyWrites>>
    /\ UNCHANGED notKeyVars

\* box.GenerateKey and the loop that fills contents
GenerateKey(c) ==
    /\ kpc[c] = "GenerateKey"
    /\ \E io \in IoResults :
         IF io = "nil"
         THEN /\ \E k \in 1..MaxKeys :
                   /\ generated' = [generated EXCEPT ![c] = <<KeyPair(k)>>]
                   /\ contents' = [contents EXCEPT ![c] = KeyContents(KeyPair(k))]
              /\ kpc' = [kpc EXCEPT ![c] = "Create"]
              /\ UNCHANGED keyLog
         ELSE /\ Return(c, "ErrCryptoKeyGeneration", <<>>, FALSE, keyFile)
              /\ UNCHANGED <<generated, contents>>
    /\ UNCHANGED <<keyReliable, keyFile, keyDir, createIfMissing, before, keyCalls,
                   keyCreates, keyWrites>>
    /\ UNCHANGED notKeyVars

\* os.Create(filePath): the file exists and is empty
Create(c) ==
    /\ kpc[c] = "Create"
    /\ \E io \in IoResults :
         IF io = "nil"
         THEN /\ keyFile' = File(<<>>)
              /\ keyCreates' = keyCreates + 1
              /\ kpc' = [kpc EXCEPT ![c] = "WriteFile"]
              /\ UNCHANGED keyLog
         ELSE /\ Return(c, "ErrInternal", <<>>, FALSE, keyFile)
              /\ UNCHANGED <<keyFile, keyCreates>>
    /\ UNCHANGED <<keyReliable, keyDir, createIfMissing, contents, generated, before,
                   keyCalls, keyWrites>>
    /\ UNCHANGED notKeyVars

\* ioutil.WriteFile(filePath, contents) and the return of the generated
\* pair; a write that fails leaves the file truncated or written in part
WriteFile(c) ==
    /\ kpc[c] = "WriteFile"
    /\ \E io \in IoResults :
         IF io = "nil"
         THEN /\ keyFile' = File(contents[c])
              /\ keyWrites' = keyWrites + 1
              /\ Return(c, "nil", generated[c], TRUE, File(contents[c]))
         ELSE /\ \E n \in {0, KeySize} :
                   /\ keyFile' = File(SubSeq(contents[c], 1, n))
                   /\ Return(c, "ErrInternal", <<>>, FALSE,
                             File(SubSeq(contents[c], 1, n)))
              /\ UNCHANGED keyWrites
    /\ UNCHANGED <<keyReliable, keyDir, createIfMissing, contents, generated, before,
                   keyCalls, keyCreates>>
    /\ UNCHANGED notKeyVars

\* one call at a time: a call starts when no call is running
SequentialCall(c, flag) ==
    /\ \A d \in Callers : kpc[d] = "idle"
    /\ GetDevicePushKeyForPath(c, flag)

\* the files a run can start with: none, a key file, and files of a wrong
\* length (empty, one byte short, one byte long)
InitialFiles ==
    {Absent}
    \cup {File(KeyContents(KeyPair(k))) : k \in 1..MaxKeys}
    \cup {File(<<>>),
          File(SubSeq(KeyContents(KeyPair(1)), 1, 2 * KeySize - 1)),
          File(Append(KeyContents(KeyPair(1)), 7))}

\* no call of GetDevicePushKeyForPath was made
KeyStoreIdle ==
    /\ kpc = [c \in Callers |-> "idle"]
    /\ createIfMissing = [c \in Callers |-> FALSE]
    /\ contents = [c \in Callers |-> <<>>]
    /\ generated = [c \in Callers |-> <<>>]
    /\ before = [c \in Callers |-> Absent]
    /\ keyCalls = 0
    /\ keyCreates = 0
    /\ keyWrites = 0
    /\ keyLog = <<>>

\* ------------------------------------------------------------------------
\* GetDatastoreDir, GetRootDatastoreForPath
\* ------------------------------------------------------------------------

InMemoryDir == ":memory:"

\* the dir arguments: none, the in-memory one, a directory
Dirs == {"", InMemoryDir, "data"}

\* path.Join(dir, "account0")
AccountDir(dir) == dir \o "/account0"

Tasks == {"t1", "t2"}

\* the operations of a datastore.Batching that only read, and those that
\* write (Commit is the commit of a batch)
ReadOps == {"Get"}

WriteOps == {"Put", "Commit"}

\* The results a file or database operation can have.
StoreResults == IF storeReliable THEN {"nil"} ELSE {"nil", "error"}

\* the directory and the database, with the number of operations on them
Disk(n, dir, table) == [fsOps |-> n, storeDir |-> dir, dbTable |-> table]

\* the opening ends: its result enters the log
Opened(arg, err, variant, start, n, dir, table) ==
    openLog' = Append(openLog,
        [dir |-> arg, err |-> err, variant |-> variant,
         before |-> start, after |-> Disk(n, dir, table)])

\* GetDatastoreDir(dir): an error for the empty dir, the in-memory dir as it
\* is, and otherwise <dir>/account0, made with MkdirAll when os.Stat finds
\* it missing.
GetDatastoreDir(dir) ==
    /\ opc = "idle"
    /\ opens < MaxOpens
    /\ opens' = opens + 1
    /\ dirArg' = dir
    /\ openStart' = Disk(fsOps, storeDir, dbTable)
    /\ IF dir = ""
       THEN /\ Opened(dir, "TODO", "none", Disk(fsOps, storeDir, dbTable),
                             fsOps, storeDir, dbTable)
            /\ UNCHANGED <<opc, dirResult, storeDir, fsOps>>
       ELSE IF dir = InMemoryDir
       THEN /\ opc' = "GetRootDatastoreForPath"
            /\ dirResult' = InMemoryDir
            /\ UNCHANGED <<storeDir, fsOps, openLog>>
       ELSE \E stat \in StoreResults, mkdir \in StoreResults :
              IF stat # "nil"
              THEN /\ fsOps' = fsOps + 1
                   /\ Opened(dir, "TODO", "none", Disk(fsOps, storeDir, dbTable),
                             fsOps + 1, storeDir, dbTable)
                   /\ UNCHANGED <<opc, dirResult, storeDir>>
              ELSE IF storeDir
              THEN /\ fsOps' = fsOps + 1
                   /\ opc' = "GetRootDatastoreForPath"
                   /\ dirResult' = AccountDir(dir)
                   /\ UNCHANGED <<storeDir, openLog>>
              ELSE IF mkdir # "nil"
              THEN /\ fsOps' = fsOps + 2
                   /\ Opened(dir, "TODO", "none", Disk(fsOps, storeDir, dbTable),
                             fsOps + 2, storeDir, dbTable)
                   /\ UNCHANGED <<opc, dirResult, storeDir>>
              ELSE /\ fsOps' = fsOps + 2
                   /\ storeDir' = TRUE
                   /\ opc' = "GetRootDatastoreForPath"
                   /\ dirResult' = AccountDir(dir)
                   /\ UNCHANGED openLog
    /\ UNCHANGED <<storeReliable, dbTable, handles, mem, lock, tpc, top, ops>>
    /\ UNCHANGED notStoreVars

\* a CREATE TABLE that replaces the table
CreateTableAnew(table) == <<{}>>

\* CREATE TABLE IF NOT EXISTS blocks
CreateTableIfNotExists(table) == IF table = <<>> THEN <<{}>> ELSE table

\* a wrap that leaves the in-process map as it is
MutexWrapDurable(ds) == [ds EXCEPT !.wrapped = (ds.variant = "Durable")]

\* sync_ds.MutexWrap(ds)
MutexWrap(ds) == [ds EXCEPT !.wrapped = TRUE]

\* datastore.NewMapDatastore()
NewMapDatastore == [variant |-> "Transient", wrapped |-> FALSE]

\* sqlds.NewDatastore(db, queries)
NewDatastore == [variant |-> "Durable", wrapped |-> FALSE]

Unlocked == [writer |-> FALSE, readers |-> 0]

\* the datastore ds is returned
ReturnDatastore(ds) ==
    /\ handles' = Append(handles, MutexWrap(ds))
    /\ mem' = Append(mem, {})
    /\ lock' = Append(lock, Unlocked)

\* GetRootDatastoreForPath(dir) on the dir GetDatastoreDir returned: a map
\* datastore for the in-memory dir; otherwise sql.Open of datastore.sqlite
\* and CREATE TABLE IF NOT EXISTS, each of which can fail; the datastore is
\* returned inside MutexWrap.
GetRootDatastoreForPath ==
    /\ opc = "GetRootDatastoreForPath"
    /\ opc' = "idle"
    /\ IF dirResult = InMemoryDir
       THEN /\ ReturnDatastore(NewMapDatastore)
            /\ Opened(dirArg, "nil", "Transient", openStart,
                             fsOps, storeDir, dbTable)
            /\ UNCHANGED <<fsOps, dbTable>>
       ELSE \E open \in StoreResults, exec \in StoreResults :
              IF open # "nil"
              THEN /\ fsOps' = fsOps + 1
                   /\ Opened(dirArg, "ErrDBOpen", "none", openStart,
                             fsOps + 1, storeDir, dbTable)
                   /\ UNCHANGED <<dbTable, handles, mem, lock>>
              ELSE IF exec # "nil"
              THEN /\ fsOps' = fsOps + 2
                   /\ Opened(dirArg, "ErrDBWrite", "none", openStart,
                             fsOps + 2, storeDir, dbTable)
                   /\ UNCHANGED <<dbTable, handles, mem, lock>>
              ELSE /\ fsOps' = fsOps + 2
                   /\ dbTable' = CreateTableIfNotExists(dbTable)
                   /\ ReturnDatastore(NewDatastore)
                   /\ Opened(dirArg, "nil", "Durable", openStart,
                             fsOps + 2, storeDir, CreateTableIfNotExists(dbTable))
    /\ UNCHANGED <<storeReliable, storeDir, dirArg, dirResult, openStart, tpc, top,
                   opens, ops>>
    /\ UNCHANGED notStoreVars

\* The guard of a wrapped datastore lets a reading operation in when no
\* writing operation holds it, and a writing operation when nothing holds
\* it; a datastore that is not wrapped has no guard.
Admits(h, kind) ==
    \/ ~handles[h].wrapped
    \/ kind \in ReadOps /\ ~lock[h].writer
    \/ kind \in WriteOps /\ ~lock[h].writer /\ lock[h].readers = 0

\* a task calls an operation of datastore h and gets through its guard
BeginOp(t, h, kind) ==
    /\ tpc[t] = "idle"
    /\ ops < MaxOps
    /\ Admits(h, kind)
    /\ ops' = ops + 1
    /\ tpc' = [tpc EXCEPT ![t] = "running"]
    /\ top' = [top EXCEPT ![t] = [h |-> h, kind |-> kind]]
    /\ lock' = IF ~handles[h].wrapped THEN lock
               ELSE IF kind \in ReadOps
               THEN [lock EXCEPT ![h].readers = @ + 1]
               ELSE [lock EXCEPT ![h].writer = TRUE]
    /\ UNCHANGED <<storeReliable, storeDir, dbTable, fsOps, opc, dirArg, dirResult,
                   openStart, handles, mem, opens, openLog>>
    /\ UNCHANGED notStoreVars

\* the keys of a store after an operation (rows of the one key 1)
Apply(kind, keys) == IF kind \in WriteOps THEN keys \cup {1} ELSE keys

NoOp == [h |-> 0, kind |-> "none"]

\* the operation of a task ends: its effect is made on the table of a
\* Durable datastore or on the map of a Transient one, and the guard is
\* released
EndOp(t) ==
    /\ tpc[t] = "running"
    /\ tpc' = [tpc EXCEPT ![t] = "idle"]
    /\ LET h == top[t].h
           kind == top[t].kind
       IN  /\ IF handles[h].variant = "Durable"
              THEN /\ dbTable' = <<Apply(kind, dbTable[1])>>
                   /\ UNCHANGED mem
              ELSE /\ mem' = [mem EXCEPT ![h] = Apply(kind, @)]
                   /\ UNCHANGED dbTable
           /\ lock' = IF ~handles[h].wrapped THEN lock
                      ELSE IF kind \in ReadOps
                      THEN [lock EXCEPT ![h].readers = @ - 1]
                      ELSE [lock EXCEPT ![h].writer = FALSE]
    /\ top' = [top EXCEPT ![t] = NoOp]
    /\ UNCHANGED <<storeReliable, storeDir, fsOps, opc, dirArg, dirResult, openStart,
                   handles, opens, ops, openLog>>
    /\ UNCHANGED notStoreVars

\* no opening was made and no operation was started
StorageFresh ==
    /\ fsOps = 0
    /\ opc = "idle"
    /\ dirArg = ""
    /\ dirResult = ""
    /\ openStart = Disk(0, storeDir, dbTable)
    /\ handles = <<>>
    /\ mem = <<>>
    /\ lock = <<>>
    /\ tpc = [t \in Tasks |-> "idle"]
    /\ top = [t \in Tasks |-> NoOp]
    /\ opens = 0
    /\ ops = 0
    /\ openLog = <<>>

\* nothing was opened and there is no directory
StorageIdle ==
    /\ storeReliable = TRUE
    /\ storeDir = FALSE
    /\ dbTable = <<>>
    /\ StorageFresh

\* ------------------------------------------------------------------------
\* ListAccounts, GetAccountMetaForName
\* ------------------------------------------------------------------------

\* the names an entry of rootDir can have ("a", "b"), in the order of
\* ioutil.ReadDir
Names == <<<<97>>, <<98>>>>

\* proto.Marshal of an AccountMetadata with an account id and a name
MarshalMeta(meta) ==
    Marshal([PK |-> meta.AccountID, PublicRendezvousSeed |-> meta.Name])

\* proto.Unmarshal into an AccountMetadata: fields 1 (account_id) and 2
\* (name) are on the wire as the two fields of a ShareableContact are
UnmarshalMeta(metaBytes) ==
    LET u == Unmarshal(metaBytes)
    IN  [ok |-> u.ok,
         meta |-> [AccountID |-> u.contact.PK,
                   Name |-> u.contact.PublicRendezvousSeed,
                   Error |-> ""]]

\* the contents an account_meta file can have: a metadata whose account id
\* is not the directory's name, no bytes at all, and a field cut short
MetaFiles ==
    {MarshalMeta([AccountID |-> <<122>>, Name |-> <<78>>]), <<>>, <<TagPK, 5, 1>>}

\* an entry of rootDir: none, a file, or a directory whose account_meta is
\* missing, cannot be read, or holds some bytes
Entry(kind, meta, bytes) == [kind |-> kind, meta |-> meta, bytes |-> bytes]

Entries ==
    {Entry("none", "none", <<>>), Entry("file", "none", <<>>),
     Entry("dir", "missing", <<>>), Entry("dir", "unreadable", <<>>)}
    \cup {Entry("dir", "file", bytes) : bytes \in MetaFiles}

RootDirs ==
    {[exists |-> FALSE, entries |-> [i \in 1..Len(Names) |-> Entry("none", "none", <<>>)]]}
    \cup {[exists |-> TRUE, entries |-> es] : es \in [1..Len(Names) -> Entries]}

\* meta.AccountID = accountID
MetaForName(meta, accountID) == [meta EXCEPT !.AccountID = accountID]

\* GetAccountMetaForName(rootDir, accountID): ErrBertyAccountDataNotFound for
\* a missing file, ErrBertyAccountFSError for one that cannot be read,
\* ErrDeserialization for bytes that do not unmarshal, and otherwise the
\* metadata of the file under the given account id
GetAccountMetaForName(entry, accountID) ==
    IF entry.meta = "missing"
    THEN [err |-> "ErrBertyAccountDataNotFound", meta |-> <<>>]
    ELSE IF entry.meta = "unreadable"
    THEN [err |-> "ErrBertyAccountFSError", meta |-> <<>>]
    ELSE IF ~UnmarshalMeta(entry.bytes).ok
    THEN [err |-> "ErrDeserialization", meta |-> <<>>]
    ELSE [err |-> "nil",
          meta |-> <<MetaForName(UnmarshalMeta(entry.bytes).meta, accountID)>>]

\* a listing that leaves out the accounts whose metadata cannot be got
DroppedAccount(accountID, err) == <<>>

\* what the listing appends for an account whose metadata cannot be got
FailedAccount(accountID, err) ==
    <<[AccountID |-> accountID, Name |-> <<>>, Error |-> err]>>

\* the loop over subitems, from the i-th on
RECURSIVE AccountsFrom(_, _)
AccountsFrom(entries, i) ==
    IF i > Len(Names) THEN <<>>
    ELSE IF entries[i].kind # "dir" THEN AccountsFrom(entries, i + 1)
    ELSE LET account == GetAccountMetaForName(entries[i], Names[i])
         IN  (IF account.err # "nil"
              THEN FailedAccount(Names[i], account.err)
              ELSE account.meta)
             \o AccountsFrom(entries, i + 1)

\* a listing for which a missing root is an error like another
MissingRootIsError == [accounts |-> <<>>, err |-> "ErrBertyAccountFSError"]

\* what the listing returns when os.Stat finds no rootDir
MissingRoot == [accounts |-> <<>>, err |-> "nil"]

\* The results os.Stat and ioutil.ReadDir can have.
AcctResults == IF acctReliable THEN {"nil"} ELSE {"nil", "error"}

\* ListAccounts(rootDir): the empty list for a root that does not exist,
\* ErrBertyAccountFSError when os.Stat or ioutil.ReadDir fails, and
\* otherwise one record for each directory among the entries
ListAccounts ==
    /\ listResult = <<>>
    /\ \E stat \in AcctResults, readDir \in AcctResults :
         listResult' =
            IF ~rootDir.exists THEN <<MissingRoot>>
            ELSE IF stat # "nil" \/ readDir # "nil"
            THEN <<[accounts |-> <<>>, err |-> "ErrBertyAccountFSError"]>>
            ELSE <<[accounts |-> AccountsFrom(rootDir.entries, 1), err |-> "nil"]>>
    /\ UNCHANGED <<acctReliable, rootDir>>
    /\ UNCHANGED notAcctVars

\* there is no accounts directory and no listing was made
AccountsIdle ==
    /\ acctReliable = TRUE
    /\ rootDir = [exists |-> FALSE,
                  entries |-> [i \in 1..Len(Names) |-> Entry("none", "none", <<>>)]]
    /\ listResult = <<>>

\* ------------------------------------------------------------------------
\* Specification of the pairing flows
\* ------------------------------------------------------------------------

\* the events the account group's log holds for a reference in this state
InitialLog(seed, enabled) ==
    (IF seed = 0 THEN <<>>
     ELSE <<Event("AccountContactRequestReferenceReset", <<>>)>>)
    \o
    (IF enabled THEN <<Event("AccountContactRequestEnabled", <<>>)>> ELSE <<>>)

PairingInit ==
    /\ reliable \in BOOLEAN
    /\ ctxDone = [r \in Roles |-> FALSE]
    /\ svcSeed \in 0..MaxSeed
    /\ svcEnabled \in BOOLEAN
    /\ metaLog = InitialLog(svcSeed, svcEnabled)
    /\ pending = {}
    /\ activated = [r \in Roles |-> {}]
    /\ msgLog = <<>>
    /\ pc1 = "shareContact"
    /\ contactRequestRef = [PublicRendezvousSeed |-> <<>>, Enabled |-> FALSE]
    /\ printed = <<>>
    /\ subMetadata = Closed
    /\ recv = NoRecv
    /\ request = <<>>
    /\ groupInfo1 = <<>>
    /\ subMessages = Closed
    /\ message = <<>>
    /\ pc2 = "decode"
    /\ encodedContact \in GroupInvitations
    /\ contact = <<>>
    /\ groupInfo2 = <<>>
    /\ calls = [r \in Roles |-> <<>>]
    /\ failed = [r \in Roles |-> FALSE]
    /\ sentAfterPrint = FALSE
    /\ metaYield = <<>>
    /\ msgYield = <<>>

Init ==
    /\ PairingInit
    /\ keyReliable = TRUE
    /\ keyFile = Absent
    /\ keyDir = FALSE
    /\ KeyStoreIdle
    /\ StorageIdle
    /\ AccountsIdle

Client1 ==
    \/ ShareContactQuery
    \/ ShareContactReset
    \/ ShareContactEnable
    \/ ShareContactRequery
    \/ ShareContactBuild
    \/ ReceiveContactRequestConfig
    \/ ReceiveContactRequestSubscribe
    \/ ReceiveContactRequestRecv
    \/ ReceiveContactRequestCheck
    \/ DoClient1Accept
    \/ DoClient1GroupInfo
    \/ DoClient1Activate
    \/ ReceiveMessageSubscribe
    \/ ReceiveMessageRecv

Client2 ==
    \/ DoClient2Decode
    \/ DoClient2Send
    \/ DoClient2GroupInfo
    \/ DoClient2Activate
    \/ DoClient2MessageSend

Environment ==
    \/ ServiceDeliverRequest
    \/ \E r \in Roles : CancelContext(r)

Next == Client1 \/ Client2 \/ Environment

Spec == Init /\ [][Next]_vars

\* Each flow is a sequential task that keeps running, and the service keeps
\* delivering.
FairSpec == Spec /\ WF_vars(Client1) /\ WF_vars(Client2) /\ WF_vars(ServiceDeliverRequest)

\* doClient2 keeps running, whatever doClient1 and the service do.
RequesterFairSpec == Spec /\ WF_vars(Client2)

\* ------------------------------------------------------------------------
\* Specification of the device push key file, one call at a time
\* ------------------------------------------------------------------------

\* the pairing flows are not running
PairingIdle ==
    /\ PairingInit
    /\ reliable = TRUE
    /\ svcSeed = 0
    /\ svcEnabled = FALSE
    /\ encodedContact = <<Base58Radix>>

KeyInit ==
    /\ PairingIdle
    /\ keyReliable \in BOOLEAN
    /\ keyFile \in InitialFiles
    /\ keyDir \in (IF keyFile.exists THEN {TRUE} ELSE BOOLEAN)
    /\ KeyStoreIdle
    /\ StorageIdle
    /\ AccountsIdle

KeyNext ==
    \/ \E c \in Callers, flag \in BOOLEAN : SequentialCall(c, flag)
    \/ \E c \in Callers : MkdirAll(c)
    \/ \E c \in Callers : GenerateKey(c)
    \/ \E c \in Callers : Create(c)
    \/ \E c \in Callers : WriteFile(c)

KeySpec == KeyInit /\ [][KeyNext]_vars

\* ------------------------------------------------------------------------
\* Specification of the device push key file under concurrent callers
\* ------------------------------------------------------------------------

\* the path is missing when the callers start
KeyConcurrentInit ==
    /\ KeyInit
    /\ keyFile = Absent

\* the calls of the callers interleave step by step: nothing in
\* GetDevicePushKeyForPath keeps a caller from running while another is
\* between two of its file operations
KeyConcurrentNext ==
    \/ \E c \in Callers, flag \in BOOLEAN : GetDevicePushKeyForPath(c, flag)
    \/ \E c \in Callers : MkdirAll(c)
    \/ \E c \in Callers : GenerateKey(c)
    \/ \E c \in Callers : Create(c)
    \/ \E c \in Callers : WriteFile(c)

KeyConcurrentSpec == KeyConcurrentInit /\ [][KeyConcurrentNext]_vars

\* ------------------------------------------------------------------------
\* Specification of the datastores
\* ------------------------------------------------------------------------

\* no key file call was made
KeyIdle ==
    /\ keyReliable = TRUE
    /\ keyFile = Absent
    /\ keyDir = FALSE
    /\ KeyStoreIdle

\* the directory may exist, with or without the database and its rows
StoreInit ==
    /\ PairingIdle
    /\ KeyIdle
    /\ storeReliable \in BOOLEAN
    /\ storeDir \in BOOLEAN
    /\ dbTable \in (IF storeDir THEN {<<>>, <<{}>>, <<{1}>>} ELSE {<<>>})
    /\ StorageFresh
    /\ AccountsIdle

StoreNext ==
    \/ \E dir \in Dirs : GetDatastoreDir(dir)
    \/ GetRootDatastoreForPath
    \/ \E t \in Tasks, h \in 1..Len(handles), kind \in ReadOps \cup WriteOps :
          BeginOp(t, h, kind)
    \/ \E t \in Tasks : EndOp(t)

StoreSpec == StoreInit /\ [][StoreNext]_vars

\* ------------------------------------------------------------------------
\* Specification of the account listing
\* ------------------------------------------------------------------------

AcctInit ==
    /\ PairingIdle
    /\ KeyIdle
    /\ StorageIdle
    /\ acctReliable \in BOOLEAN
    /\ rootDir \in RootDirs
    /\ listResult = <<>>

AcctNext == ListAccounts

AcctSpec == AcctInit /\ [][AcctNext]_vars

\* ------------------------------------------------------------------------
\* Properties of the pairing flows
\* ------------------------------------------------------------------------

Pc(r) == IF r = "client1" THEN pc1 ELSE pc2

IsIncoming(ev) == ev.EventType = "AccountContactRequestIncomingReceived"

Incoming(evs) == {i \in 1..Len(evs) : IsIncoming(evs[i])}

\* the ShareableContact a text decodes to, as a one-element sequence; the
\* empty sequence when the text does not decode
Decoded(text) ==
    LET b == Base58Decode(text)
    IN  IF ~b.ok THEN <<>>
        ELSE IF ~Unmarshal(b.bytes).ok THEN <<>>
        ELSE <<Unmarshal(b.bytes).contact>>

\* The scenario of C1: nothing fails, and doClient2 sent its contact request
\* with the text doClient1 had printed before.
C1_Scenario == reliable /\ sentAfterPrint /\ printed = <<encodedContact>>

C1_Delivered ==
    /\ pc1 = "done"
    /\ Cardinality(Incoming(metaYield)) = 1
    /\ request = <<[ContactPK |-> AccountPK("client2")]>>
    /\ msgYield = <<[GroupPK |-> {AccountPK("client1"), AccountPK("client2")},
                     Message |-> Hello]>>
    /\ message = <<Hello>>

\* C1: when the Sharer printed its token, with the reference enabled, before
\* the Requester sent its contact request, and no call fails, then in every
\* interleaving the metadata subscription yields exactly one
\* incoming-contact-request event, which carries the Requester's public key,
\* and the Sharer eventually reaches Done having received exactly one
\* message, whose payload is "Hello".
C1_EndToEndDelivery ==
    /\ [](C1_Scenario =>
            /\ svcEnabled
            /\ Cardinality(Incoming(metaYield)) <= 1
            /\ \A i \in Incoming(metaYield) :
                   metaYield[i].ContactPK = AccountPK("client2")
            /\ Len(msgYield) <= 1
            /\ \A i \in 1..Len(msgYield) : msgYield[i].Message = Hello)
    /\ (C1_Scenario ~> C1_Delivered)

C1_Witness == C1_Scenario /\ C1_Delivered

\* C2: a receive that ended because the pairing context was cancelled, or
\* with an error other than the clean end of the stream, gives an error
\* outcome; "not received" is the outcome only of a stream that ended
\* cleanly.
C2_NotReceivedOnlyOnCleanEnd ==
    /\ pc1 \in {"noRequest", "noMessage"} => recv.err = "EOF"
    /\ (pc1 \in Terminal /\ recv.err = "error") => pc1 = "panic"

\* C3: when the message subscription ends cleanly before any message
\* arrived, receiveMessage returns "not received" and doClient1 ends
\* without a message and without an error.
C3_CleanEndIsNotReceived ==
    (recv.from = "messages" /\ recv.err = "EOF") =>
        /\ pc1 = "noMessage"
        /\ message = <<>>
        /\ msgYield = <<>>
        /\ ~failed["client1"]

C3_Witness ==
    /\ recv.from = "messages"
    /\ recv.err = "EOF"
    /\ pc1 = "noMessage"
    /\ msgLog = <<>>

\* C4: in both flows the first call that fails ends the flow at once with
\* the failure surfaced (a panic), and no call follows a failed one: no
\* retry, no later step, no compensating call.
C4_NoRetryNoRollback ==
    \A r \in Roles :
        LET cs == calls[r]
        IN  /\ \A i \in 1..(Len(cs) - 1) : cs[i].ok
            /\ failed[r] <=> (Len(cs) > 0 /\ ~cs[Len(cs)].ok)
            /\ failed[r] => Pc(r) \in Terminal \cup {"checkMetadata"}
            /\ (failed[r] /\ Pc(r) \in Terminal) => Pc(r) = "panic"

\* the part of C4 about what follows a failure: no call follows a failed one
C4_NoCallAfterFailure ==
    \A r \in Roles :
        /\ \A i \in 1..(Len(calls[r]) - 1) : calls[r][i].ok
        /\ failed[r] => Pc(r) \in Terminal \cup {"checkMetadata"}

\* the calls of shareContact, in order, without and with the reset
ShareContactShort == <<"ContactRequestReference", "ServiceGetConfiguration">>

ShareContactLong ==
    <<"ContactRequestReference", "ContactRequestResetReference",
      "ContactRequestEnable", "ContactRequestReference", "ServiceGetConfiguration">>

IsPrefix(a, b) == Len(a) <= Len(b) /\ a = SubSeq(b, 1, Len(a))

Rpcs(cs) == [i \in 1..Len(cs) |-> cs[i].rpc]

FirstCalls(cs, n) == SubSeq(cs, 1, IF Len(cs) < n THEN Len(cs) ELSE n)

\* C5: shareContact queries the reference first; it issues reset and enable,
\* in that order and followed by a second query, exactly when the first
\* query returned an empty seed or a disabled reference; the contact it
\* returns carries the account's public key and the seed of the last query
\* made, and that seed is not empty and that reference is enabled.
C5_ShareContact ==
    LET cs == calls["client1"]
        first == cs[1].reply[1]
        resets == first.PublicRendezvousSeed = <<>> \/ ~first.Enabled
    IN  /\ Len(cs) >= 1 => cs[1].rpc = "ContactRequestReference"
        /\ (Len(cs) >= 2 /\ cs[1].ok) =>
              IF resets
              THEN IsPrefix(Rpcs(FirstCalls(cs, 5)), ShareContactLong)
              ELSE IsPrefix(Rpcs(FirstCalls(cs, 2)), ShareContactShort)
        /\ printed # <<>> =>
              LET last == IF resets THEN cs[4].reply[1] ELSE first
              IN  /\ Len(cs) >= (IF resets THEN 5 ELSE 2)
                  /\ \A i \in 1..(IF resets THEN 5 ELSE 2) : cs[i].ok
                  /\ Decoded(printed[1]) =
                        <<[PK |-> AccountPK("client1"),
                           PublicRendezvousSeed |-> last.PublicRendezvousSeed]>>
                  /\ last.PublicRendezvousSeed # <<>>
                  /\ last.Enabled

C5_Witness ==
    /\ printed # <<>>
    /\ Len(calls["client1"]) = 5
    /\ calls["client1"][1].reply[1].PublicRendezvousSeed # <<>>
    /\ ~calls["client1"][1].reply[1].Enabled
    /\ calls["client1"][4].reply[1].PublicRendezvousSeed #
           calls["client1"][1].reply[1].PublicRendezvousSeed

\* the state of the Sharer flow that a position of doClient1 belongs to:
\* Idle 0, RendezvousReady 1, AwaitingRequest 2, Accepting 3, GroupActive 4,
\* AwaitingMessage 5, Done 6; 7 is a flow that ended without reaching Done
SharerRank ==
    CASE pc1 \in {"shareContact", "reset", "enable", "requery", "config"} -> 0
      [] pc1 \in {"receiveContactRequest", "subscribeMetadata"} -> 1
      [] pc1 \in {"recvMetadata", "checkMetadata"} -> 2
      [] pc1 \in {"accept", "groupInfo", "activate"} -> 3
      [] pc1 = "subscribeMessages" -> 4
      [] pc1 = "recvMessage" -> 5
      [] pc1 = "done" -> 6
      [] OTHER -> 7

\* the part of C6 about the calls made
C6_Calls ==
    LET cs == calls["client1"]
    IN  \A i \in 1..Len(cs) :
          /\ cs[i].rpc = "ContactRequestAccept" =>
                /\ i > 1
                /\ cs[i - 1].rpc = "Recv"
                /\ cs[i - 1].reply # <<>>
                /\ IsIncoming(cs[i - 1].reply[1])
                /\ cs[i].arg = cs[i - 1].reply[1].ContactPK
          /\ (cs[i].rpc = "GroupInfo") =>
                /\ cs[i - 1].rpc = "ContactRequestAccept"
                /\ cs[i - 1].ok
                /\ cs[i].arg = cs[i - 1].arg
          /\ cs[i].rpc = "ActivateGroup" =>
                /\ cs[i - 1].rpc = "GroupInfo"
                /\ cs[i - 1].ok
                /\ <<cs[i].arg>> = cs[i - 1].reply
          /\ cs[i].rpc = "GroupMessageList" =>
                /\ cs[i - 1].rpc = "ActivateGroup"
                /\ cs[i - 1].ok
                /\ cs[i].arg = cs[i - 1].arg

\* C6: in every execution of doClient1, accept-contact-request is called
\* only after an incoming-contact-request event was received and with that
\* event's key; group-info is looked up by the same key; activate-group is
\* called on the group of that reply; the message subscription is opened on
\* that group only after the activation succeeded; and the flow goes through
\* Idle, RendezvousReady, AwaitingRequest, Accepting, GroupActive,
\* AwaitingMessage, Done in this order, skipping and revisiting none.
C6_SharerOrdering ==
    /\ []C6_Calls
    /\ [][\/ SharerRank' = SharerRank
          \/ SharerRank' = SharerRank + 1 /\ SharerRank' < 7
          \/ SharerRank' = 7]_vars

C6_Witness ==
    /\ pc1 = "done"
    /\ Len(calls["client1"]) >= 12
    /\ \E i \in 1..Len(calls["client1"]) : calls["client1"][i].rpc = "GroupMessageList"

\* the calls of doClient2, in order
DoClient2Calls == <<"ContactRequestSend", "GroupInfo", "ActivateGroup", "AppMessageSend">>

\* C7: doClient2 calls send-contact-request (with the decoded contact),
\* group-info by the Sharer's public key, activate-group and message send in
\* this order; the message goes into exactly the group that was activated;
\* and this is the group the Sharer resolves and activates from the
\* Requester's public key.
C7_RequesterOrdering ==
    LET cs == calls["client2"]
        c1 == calls["client1"]
    IN  /\ IsPrefix(Rpcs(cs), DoClient2Calls)
        /\ \A i \in 1..(Len(cs) - 1) : cs[i].ok
        /\ Len(cs) >= 1 => <<cs[1].arg>> = Decoded(encodedContact)
        /\ Len(cs) >= 2 => /\ cs[2].arg = cs[1].arg.PK
                           /\ cs[2].arg = AccountPK("client1")
        /\ Len(cs) >= 3 => <<cs[3].arg>> = cs[2].reply
        /\ Len(cs) >= 4 => /\ cs[4].arg = [GroupPK |-> cs[3].arg, Payload |-> Hello]
                           /\ cs[3].arg \in activated["client2"]
        /\ pc2 = "done" => /\ Len(cs) = 4
                           /\ cs[4].ok
                           /\ msgLog = <<[GroupPK |-> cs[3].arg, Message |-> Hello]>>
        /\ \A i \in 1..Len(c1) :
              /\ c1[i].rpc = "GroupInfo" => c1[i].arg = AccountPK("client2")
              /\ (c1[i].rpc = "GroupInfo" /\ c1[i].ok /\ Len(cs) >= 2 /\ cs[2].ok) =>
                    c1[i].reply = cs[2].reply
              /\ (c1[i].rpc \in {"ActivateGroup", "GroupMessageList"} /\ Len(cs) >= 3) =>
                    c1[i].arg = cs[3].arg

C7_Witness ==
    /\ pc2 = "done"
    /\ pc1 = "recvMessage"
    /\ activated["client1"] = activated["client2"]
    /\ activated["client1"] # {}

\* C8: when the token does not text-decode or does not deserialize, the
\* Requester flow fails before it issues any call: no contact request is
\* sent, no group is looked up or activated, no message is sent.
C8_InvalidContactToken ==
    Decoded(encodedContact) = <<>> =>
        /\ pc2 \in {"decode", "panic"}
        /\ calls["client2"] = <<>>
        /\ contact = <<>>
        /\ pending = {}
        /\ activated["client2"] = {}
        /\ msgLog = <<>>

C8_Witness ==
    /\ pc2 = "panic"
    /\ Base58Decode(encodedContact).ok
    /\ ~Unmarshal(Base58Decode(encodedContact).bytes).ok

\* ------------------------------------------------------------------------
\* Properties of the device push key file
\* ------------------------------------------------------------------------

\* a file of exactly 2*KeySize bytes
ValidKeyFile(file) == file.exists /\ Len(file.contents) = 2 * KeySize

\* an existing file of another length
WrongLength(file) == file.exists /\ Len(file.contents) # 2 * KeySize

\* C9: a call with createIfMissing on a missing path creates a file of
\* exactly 2*KeySize bytes, the public half then the private half, exactly
\* once, and returns the pair it wrote; every later call, with either flag,
\* returns the same pair and leaves the file as it is. The calls on a file
\* of 2*KeySize bytes all return the same pair.
C9_KeyStability ==
    /\ \A i \in 1..Len(keyLog) :
         LET call == keyLog[i]
         IN  /\ (keyReliable /\ ~call.before.exists /\ call.createIfMissing) =>
                    call.created
             /\ call.created =>
                    /\ ~call.before.exists
                    /\ call.err = "nil"
                    /\ Len(call.after.contents) = 2 * KeySize
                    /\ call.after = File(call.pair[1].pk \o call.pair[1].sk)
                    /\ keyCreates = 1
                    /\ keyWrites = 1
                    /\ \A j \in (i + 1)..Len(keyLog) :
                          /\ keyLog[j].before = call.after
                          /\ keyLog[j].after = call.after
                          /\ keyLog[j].err = "nil" => keyLog[j].pair = call.pair
                          /\ keyReliable => keyLog[j].err = "nil"
             /\ ValidKeyFile(call.before) =>
                    /\ call.after = call.before
                    /\ keyReliable => call.err = "nil"
                    /\ call.err = "nil" =>
                          call.before.contents = call.pair[1].pk \o call.pair[1].sk
                    /\ \A j \in (i + 1)..Len(keyLog) :
                          (call.err = "nil" /\ keyLog[j].err = "nil") =>
                              keyLog[j].pair = call.pair
    /\ \A i \in 1..Len(keyLog) : keyLog[i].created => keyFile = keyLog[i].after

C9_Witness ==
    /\ Len(keyLog) = 3
    /\ keyLog[1].created
    /\ keyLog[2].err = "nil"
    /\ keyLog[3].err = "nil"
    /\ keyLog[2].createIfMissing # keyLog[3].createIfMissing

\* C10: a call on an existing file whose length is not 2*KeySize fails with
\* an error, for either flag: it returns no pair built from the file, it
\* does not stop with a panic, and it does not create the file anew.
C10_CorruptKeyFile ==
    \A i \in 1..Len(keyLog) :
        WrongLength(keyLog[i].before) =>
            /\ keyLog[i].err \notin {"nil", "panic"}
            /\ keyLog[i].pair = <<>>
            /\ ~keyLog[i].created
            /\ keyLog[i].after = keyLog[i].before

\* C11: while a caller creates the key file on a missing path, a call with
\* createIfMissing = FALSE on the same path finds the file absent or finds
\* the complete file of 2*KeySize bytes, never an empty or partly written
\* one (no file operation fails).
C11_NoPartialFileObserved ==
    keyReliable =>
        \A i \in 1..Len(keyLog) :
            ~keyLog[i].createIfMissing =>
                \/ keyLog[i].before = Absent
                \/ ValidKeyFile(keyLog[i].before)

\* C12: when two callers create the key file of the same missing path
\* concurrently, the file is created and written at most once, and every
\* caller that returned a pair returned the pair the file holds in the end
\* (no file operation fails).
C12_SingleCreation ==
    keyReliable =>
        /\ keyCreates <= 1
        /\ keyWrites <= 1
        /\ (\A c \in Callers : kpc[c] = "idle") =>
              \A i \in 1..Len(keyLog) :
                  keyLog[i].err = "nil" =>
                      keyFile = File(keyLog[i].pair[1].pk \o keyLog[i].pair[1].sk)

\* C13: a call with createIfMissing = FALSE on a path with no file fails
\* with the error of a key that cannot be read, returns no pair, and
\* creates neither the file nor its directory: it never enters the steps
\* that create them.
C13_KeyNotFound ==
    /\ \A i \in 1..Len(keyLog) :
          (~keyLog[i].before.exists /\ ~keyLog[i].createIfMissing) =>
              /\ keyLog[i].err = "ErrPushUnableToDecrypt"
              /\ keyLog[i].pair = <<>>
              /\ ~keyLog[i].created
              /\ keyLog[i].after = Absent
    /\ \A c \in Callers : kpc[c] # "idle" => createIfMissing[c]
    /\ (/\ keyLog # <<>>
        /\ \A c \in Callers : kpc[c] = "idle"
        /\ \A i \in 1..Len(keyLog) : ~keyLog[i].createIfMissing) =>
          /\ keyFile = keyLog[1].before
          /\ keyCreates = 0
          /\ keyWrites = 0

C13_Witness ==
    /\ Len(keyLog) = 2
    /\ \A i \in 1..2 : ~keyLog[i].createIfMissing /\ ~keyLog[i].before.exists
    /\ keyFile = Absent
    /\ ~keyDir

\* ------------------------------------------------------------------------
\* Properties of the datastores
\* ------------------------------------------------------------------------

\* the tasks inside an operation of datastore h
InProgress(h) == {t \in Tasks : tpc[t] = "running" /\ top[t].h = h}

C15_Openings ==
    \A i \in 1..Len(openLog) :
        LET o == openLog[i]
        IN  /\ o.dir = InMemoryDir =>
                  /\ o.err = "nil"
                  /\ o.variant = "Transient"
                  /\ o.after.fsOps = o.before.fsOps
                  /\ o.after.storeDir = o.before.storeDir
            /\ (o.dir = "data" /\ storeReliable) =>
                  /\ o.err = "nil"
                  /\ o.variant = "Durable"
                  /\ o.after.storeDir
                  /\ o.after.dbTable # <<>>
                  /\ o.before.dbTable = <<>> => o.after.dbTable = <<{}>>
                  /\ o.after.fsOps > o.before.fsOps
            /\ o.variant = "Durable" => o.dir = "data"
            /\ o.variant = "Transient" => o.dir = InMemoryDir

\* C15: for the in-memory dir the opening returns a Transient datastore and
\* makes no file or database operation; for a directory, every one of any
\* number of successive openings succeeds (no operation failing), the first
\* creates the subdirectory and the table, and an opening that finds the
\* table leaves it and its rows as they are.
C15_BackendSelection ==
    /\ []C15_Openings
    /\ [][(opc = "GetRootDatastoreForPath" /\ opc' = "idle" /\ dbTable # <<>>) =>
              dbTable' = dbTable]_vars
    /\ [][(opc' # opc /\ dirArg' = InMemoryDir) =>
              (fsOps' = fsOps /\ storeDir' = storeDir /\ dbTable' = dbTable)]_vars

C15_Witness ==
    /\ Len(openLog) = 3
    /\ openLog[1].dir = InMemoryDir
    /\ openLog[2].dir = "data"
    /\ ~openLog[2].before.storeDir
    /\ openLog[3].dir = "data"
    /\ openLog[3].err = "nil"
    /\ openLog[3].after.dbTable = <<{1}>>

\* ------------------------------------------------------------------------
\* Properties of the account listing
\* ------------------------------------------------------------------------

\* the places of the directories among the entries of rootDir
Subdirs == {i \in 1..Len(Names) : rootDir.entries[i].kind = "dir"}

\* a directory whose metadata file is missing, unreadable or corrupt
BadAccount(entry) ==
    \/ entry.meta \in {"missing", "unreadable"}
    \/ entry.meta = "file" /\ entry.bytes = <<TagPK, 5, 1>>

\* C16: for an existing root the listing, when it can read the directory,
\* returns no error and exactly one record for each immediate subdirectory,
\* in the directory's order, none for another entry; each record has the
\* directory's name as accountID, and its error field is non-empty exactly
\* when the metadata file is missing, unreadable or corrupt. With no failure
\* of os.Stat and ioutil.ReadDir the listing returns no error.
C16_EveryAccountListed ==
    (listResult # <<>> /\ rootDir.exists) =>
        LET accounts == listResult[1].accounts
        IN  /\ acctReliable => listResult[1].err = "nil"
            /\ listResult[1].err = "nil" =>
                  /\ Len(accounts) = Cardinality(Subdirs)
                  /\ \A i \in Subdirs :
                        LET k == Cardinality({j \in Subdirs : j <= i})
                        IN  /\ accounts[k].AccountID = Names[i]
                            /\ BadAccount(rootDir.entries[i]) <=> accounts[k].Error # ""
                            /\ rootDir.entries[i].bytes # <<>> /\ accounts[k].Error = "" =>
                                  accounts[k].Name = <<78>>

C16_Witness ==
    /\ listResult # <<>>
    /\ rootDir.exists
    /\ rootDir.entries[1] = Entry("dir", "file", <<TagPK, 5, 1>>)
    /\ rootDir.entries[2] = Entry("file", "none", <<>>)
    /\ Len(listResult[1].accounts) = 1
    /\ listResult[1].accounts[1].Error = "ErrDeserialization"

\* C17: on a root directory that does not exist the listing returns the
\* empty sequence and no error, and the directory still does not exist.
C17_MissingRoot ==
    /\ []((listResult # <<>> /\ ~rootDir.exists) =>
            /\ listResult[1].accounts = <<>>
            /\ listResult[1].err = "nil")
    /\ [][(listResult' # listResult) => (rootDir' = rootDir)]_vars

C17_Witness ==
    /\ listResult # <<>>
    /\ ~rootDir.exists
    /\ ~acctReliable

\* ------------------------------------------------------------------------
\* Properties of the receive steps of doClient1
\* ------------------------------------------------------------------------

\* the last event the metadata subscription yielded
LastYield == metaYield[Len(metaYield)]

\* C18: receiveContactRequest takes the events of the account group in
\* stream order; every event it took before the last is of another kind than
\* "incoming contact request received"; having taken an event of another
\* kind, with the context not cancelled, it goes back to Recv with the
\* subscription open and without a request; a request it returns is decoded
\* from the last event taken, which is the first of that kind; after an event
\* of that kind it takes no further event.
C18_FirstIncomingReturned ==
    /\ [](/\ IsPrefix(metaYield, metaLog)
          /\ \A i \in 1..(Len(metaYield) - 1) : ~IsIncoming(metaYield[i])
          /\ request # <<>> =>
                /\ metaYield # <<>>
                /\ IsIncoming(LastYield)
                /\ request[1] = [ContactPK |-> LastYield.ContactPK]
          /\ (metaYield # <<>> /\ IsIncoming(LastYield)) =>
                pc1 # "recvMetadata")
    /\ [][(metaYield # <<>> /\ IsIncoming(LastYield)) => metaYield' = metaYield]_vars
    /\ [][(/\ pc1 = "checkMetadata"
           /\ pc1' # pc1
           /\ recv.err = "nil"
           /\ ~ctxDone["client1"]) =>
              IF IsIncoming(recv.event)
              THEN pc1' = "accept" /\ request' = <<[ContactPK |-> recv.event.ContactPK]>>
              ELSE pc1' = "recvMetadata" /\ request' = <<>> /\ subMetadata' = subMetadata]_vars

C18_Witness ==
    /\ request # <<>>
    /\ Len(metaYield) = 3
    /\ ~IsIncoming(metaYield[1])
    /\ ~IsIncoming(metaYield[2])
    /\ Len(metaLog) > 3

\* ------------------------------------------------------------------------
\* Progress of doClient2
\* ------------------------------------------------------------------------

\* C19: with doClient2 alone kept running, once the token is decoded
\* doClient2 ends: it returns after its four calls unless one of them failed,
\* and when nothing fails and the service takes the contact it does return,
\* however far doClient1 has come.
C19_RequesterNeverWaits ==
    /\ (pc2 = "send") ~> (pc2 = "done" \/ failed["client2"])
    /\ (reliable /\ pc2 = "send" /\ SvcValidContact("client2", SendContact)) ~>
          (pc2 = "done" /\ Len(calls["client2"]) = 4 /\ ~failed["client2"])

C19_Witness ==
    /\ pc2 = "done"
    /\ pc1 = "shareContact"
    /\ calls["client1"] = <<>>
    /\ msgLog = <<[GroupPK |-> ContactGroup(AccountPK("client2"), AccountPK("client1")),
                   Message |-> Hello]>>
    /\ pending # {}

\* ------------------------------------------------------------------------
\* Lifetime of the subscriptions of doClient1
\* ------------------------------------------------------------------------

\* a step that cancels a subscription
SubCancel ==
    \/ subMetadata.open /\ ~subMetadata'.open
    \/ subMessages.open /\ ~subMessages'.open

\* C20: the metadata subscription is open only inside receiveContactRequest
\* and the message subscription only inside receiveMessage, so that neither
\* is open once its function has returned, by a result, by "not received" or
\* by an error; the two are never open together, none is open when the flow
\* has ended, and the step that cancels a subscription leaves the pairing
\* contexts as they are.
C20_SubscriptionsScoped ==
    /\ [](/\ ~(subMetadata.open /\ subMessages.open)
          /\ subMetadata.open => pc1 \in {"recvMetadata", "checkMetadata"}
          /\ subMessages.open => pc1 = "recvMessage"
          /\ pc1 \in Terminal => (~subMetadata.open /\ ~subMessages.open))
    /\ [][SubCancel => ctxDone' = ctxDone]_vars

C20_Witness ==
    /\ pc1 = "recvMessage"
    /\ subMessages.open
    /\ ~subMetadata.open
    /\ request # <<>>
    /\ Len(metaYield) >= 1
    /\ ~ctxDone["client1"]

====
